---- MODULE Spec2Model ----
(***************************************************************************)
(* funlib.show.neuroglancer: the layer adapter of add_array.py (coordinate  *)
(* space, affine offset, channel axis, volume type, dtype normalisation)    *)
(* and the graph adapter of add_graph.py, as state machines over a viewer   *)
(* context (a map from layer names to layers).                              *)
(*                                                                          *)
(* Conventions.                                                             *)
(*  - Python None is the string "None", and <<>> where the value is an     *)
(*    optional integer (<<n>> is the integer n) or an optional list; a      *)
(*    raised exception is a result record whose status names the exception. *)
(*  - An axis name is a sequence of characters, so that endswith("^") and   *)
(*    appending "^" are computed and not assumed.                           *)
(*  - A float o / v is the reduced fraction <<n, d>> with d > 0.            *)
(*  - Axis indices are 1-based here (Python index + 1).                     *)
(*  - funlib.persistence.Array is a library: array.channel_dims is the      *)
(*    number of axes typed neither space nor time (add_array.py:219-222     *)
(*    indexes the first such axis when it is 1), array.spatial_dims is the  *)
(*    rest, the axes typed space or time, which are the axes carrying       *)
(*    units/voxel_size/offset entries (add_array.py:61-63, basics.py:92-95).*)
(***************************************************************************)
EXTENDS Integers, Sequences, FiniteSets, TLC

\* ------------------------------------------------------------------ bounds
MaxAxes == 3
MaxChannels == 4
MaxNodes == 3
MaxEdges == 2
\* The width, in bits, that stands for the 64 bits of int64 and uint64.
IdBits == 3
MaxComputed == 2

VARIABLES arr, ret, layers, last, graph, cli

vars == <<arr, ret, layers, last, graph, cli>>

None == "None"

\* An optional integer: <<>> is Python None, <<n>> the integer n.
NoInt == <<>>

\* An optional list: <<>> is Python None (the lists given are not empty).
NoList == <<>>

\* ---------------------------------------------------------------- helpers
RECURSIVE GCD(_, _)
GCD(a, b) == IF b = 0 THEN a ELSE GCD(b, a % b)

Abs(x) == IF x < 0 THEN -x ELSE x

\* Python's o / v for integers o and v > 0, as a reduced fraction.
TrueDiv(o, v) ==
  LET g == GCD(Abs(o), v)
  IN  <<o \div g, v \div g>>

Physical(axis_type) == axis_type \in {"time", "space"}

\* The axis types an Array may carry: space, time, and one other type.
AxisTypes == {"space", "time", "channel"}

\* ------------------------------------------------- create_coordinate_space
\* list.pop(0) on every time/space axis, fill_value elsewhere.
RECURSIVE interleaveFrom(_, _, _, _)
interleaveFrom(list, fill_value, axis_types, i) ==
  IF i > Len(axis_types) THEN <<>>
  ELSE IF Physical(axis_types[i])
       THEN <<Head(list)>> \o interleaveFrom(Tail(list), fill_value, axis_types, i + 1)
       ELSE <<fill_value>> \o interleaveFrom(list, fill_value, axis_types, i + 1)

\* A plausible slip: the source value is read at the axis position, not popped.
interleaveByPosition(list, fill_value, axis_types) ==
  [i \in 1..Len(axis_types) |->
     IF Physical(axis_types[i]) /\ i <= Len(list) THEN list[i] ELSE fill_value]

\* A plausible slip: every axis pops a source value while one is left.
interleaveConsumeAll(list, fill_value, axis_types) ==
  [i \in 1..Len(axis_types) |->
     IF i <= Len(list) THEN list[i] ELSE fill_value]

interleave(list, fill_value, axis_types) ==
  interleaveFrom(list, fill_value, axis_types, 1)

endswithCaret(axis_name) ==
  Len(axis_name) > 0 /\ axis_name[Len(axis_name)] = "^"

\* A plausible slip: the marker is appended without looking for one.
markAlways(axis_name, axis_type) ==
  IF Physical(axis_type) THEN axis_name ELSE axis_name \o <<"^">>

\* One element of the axis_names comprehension.
markName(axis_name, axis_type) ==
  IF Physical(axis_type) \/ endswithCaret(axis_name)
  THEN axis_name
  ELSE axis_name \o <<"^">>

markedNames(axis_names, axis_types) ==
  [i \in 1..Len(axis_names) |-> markName(axis_names[i], axis_types[i])]

\* np.eye(D + 1)[:-1, :] as fractions.
eyeRows(D) ==
  [i \in 1..D |-> [j \in 1..(D + 1) |-> IF i = j THEN <<1, 1>> ELSE <<0, 1>>]]

\* A plausible slip: the offsets are written in physical units.
offsetsUnscaled(array) ==
  [k \in 1..Len(array.offset) |-> <<array.offset[k], 1>>]

offsetsInVoxels(array) ==
  [k \in 1..Len(array.offset) |-> TrueDiv(array.offset[k], array.voxel_size[k])]

\* array.spatial_dims and array.channel_dims of the Array library.
spatial_dims(array) ==
  Cardinality({i \in 1..Len(array.types) : Physical(array.types[i])})

channel_dims(array) ==
  Cardinality({i \in 1..Len(array.types) : ~Physical(array.types[i])})

create_coordinate_space(array) ==
  IF ~(spatial_dims(array) > 0)
  THEN [status |-> "AssertionError: spatial_dims"]
  ELSE
    LET units  == interleave(array.units, "", array.types)
        scales == interleave(array.voxel_size, 1, array.types)
        offset == interleave(offsetsInVoxels(array), <<0, 1>>, array.types)
        names  == markedNames(array.axis_names, array.types)
        eye    == eyeRows(Len(scales))
        affine == [i \in 1..Len(offset) |->
                     [eye[i] EXCEPT ![Len(eye[i])] = offset[i]]]
    IN  [status |-> "ok",
         names |-> names, units |-> units, scales |-> scales,
         affine_transform |-> affine]

\* ------------------------------------------------------------------ arrays
\* The Array attributes the adapter reads.  dtype is the dtype of the stored
\* data, source the stored samples, lazy_ops the conversions attached by
\* Array.lazy_op, computed the number of conversions that have been executed
\* on the data.
MkArray(axis_names, types, units, voxel_size, offset, dtype, shape, source) ==
  [axis_names |-> axis_names, types |-> types, units |-> units,
   voxel_size |-> voxel_size, offset |-> offset, dtype |-> dtype,
   shape |-> shape, lazy_ops |-> <<>>, source |-> source, computed |-> 0]

Letters == <<"z", "y", "x", "w", "v">>

\* (unit, voxel_size, offset) of one space/time axis; basics.py:126-138 uses
\* offset 2 with voxel sizes 1 and 4.
Calibrations ==
  { [unit |-> "nm", voxel_size |-> 1, offset |-> 2],
    [unit |-> "nm", voxel_size |-> 4, offset |-> 2],
    [unit |-> "s",  voxel_size |-> 1, offset |-> 0],
    [unit |-> "um", voxel_size |-> 4, offset |-> -6] }

NoCalibration == [unit |-> "", voxel_size |-> 1, offset |-> 0]

\* One axis of an input array: its type, whether its name already carries the
\* marker, and its calibration when it is a space/time axis.
AxisSpecs ==
  { [type |-> t, marked |-> m, cal |-> c] :
      t \in {"space", "time"}, m \in BOOLEAN, c \in Calibrations }
  \cup
  { [type |-> "channel", marked |-> m, cal |-> NoCalibration] : m \in BOOLEAN }

RECURSIVE physicalCals(_, _)
physicalCals(axes, i) ==
  IF i > Len(axes) THEN <<>>
  ELSE IF Physical(axes[i].type)
       THEN <<axes[i].cal>> \o physicalCals(axes, i + 1)
       ELSE physicalCals(axes, i + 1)

ArrayOf(axes, dtype, shape, source) ==
  LET cals == physicalCals(axes, 1)
  IN  MkArray(
        [i \in 1..Len(axes) |->
           IF axes[i].marked THEN <<Letters[i], "^">> ELSE <<Letters[i]>>],
        [i \in 1..Len(axes) |-> axes[i].type],
        [k \in 1..Len(cals) |-> cals[k].unit],
        [k \in 1..Len(cals) |-> cals[k].voxel_size],
        [k \in 1..Len(cals) |-> cals[k].offset],
        dtype, shape, source)

AxisLists == UNION { [1..D -> AxisSpecs] : D \in 1..MaxAxes }

CoordArrays ==
  { ArrayOf(axes, "uint8", [i \in 1..Len(axes) |-> 1], <<0>>) : axes \in AxisLists }

NoArray == MkArray(<<>>, <<>>, <<>>, <<>>, <<>>, "uint8", <<>>, <<>>)
NoGraph == [nodes |-> <<>>, edges |-> <<>>, meta |-> [k \in {} |-> None]]
NoCall == [op |-> "none"]
NoLayers == [n \in {} |-> None]
NoCli == [pc |-> "none"]

\* ------------------------------------------- specification: coordinate space
InitCoord ==
  /\ arr \in CoordArrays
  /\ ret = [status |-> "none"]
  /\ layers = NoLayers
  /\ last = NoCall
  /\ graph = NoGraph
  /\ cli = NoCli

CallCreateCoordinateSpace ==
  /\ ret.status = "none"
  /\ ret' = create_coordinate_space(arr)
  /\ UNCHANGED <<arr, layers, last, graph, cli>>

NextCoord == CallCreateCoordinateSpace

SpecCoord == InitCoord /\ [][NextCoord]_vars

\* ------------------------------------------------------------- add_layer
Dtypes ==
  {"bool", "uint8", "uint16", "float16", "float32", "float64",
   "int8", "int32", "int64", "uint32", "uint64"}

BoolDtypes == {"bool"}
ImageDtypes == {"uint8", "uint16", "float16", "float32", "float64"}

\* The module-level string `color`: the shader emitting RGB from channels 0-2.
color == "rgb_shader"

\* array.dtype: the dtype of the data as the attached conversions leave it.
dtypeOf(array) ==
  IF array.lazy_ops = <<>> THEN array.dtype
  ELSE array.lazy_ops[Len(array.lazy_ops)]

\* Array.lazy_op(lambda data: data.astype(target)): attached, not executed.
lazy_op(array, target) ==
  [array EXCEPT !.lazy_ops = Append(@, target)]

\* data.astype(target) on one sample: bool to float gives 0.0 / 1.0, a signed
\* integer to uint64 wraps modulo 2^width, a float is the fraction <<n, d>>.
astypeValue(v, from, target) ==
  IF target = "float32" /\ from = "bool" THEN (IF v THEN <<1, 1>> ELSE <<0, 1>>)
  ELSE IF target = "uint64" /\ from = "int64" THEN v % (2 ^ IdBits)
  ELSE v

astype(data, from, target) ==
  [i \in 1..Len(data) |-> astypeValue(data[i], from, target)]

\* A plausible slip: the conversion is run on the data at once, not attached.
compatibleEager(array) ==
  IF array.dtype = "bool"
  THEN [array EXCEPT !.source = astype(@, "bool", "float32"),
                     !.dtype = "float32", !.computed = @ + 1]
  ELSE IF array.dtype = "int64"
  THEN [array EXCEPT !.source = astype(@, "int64", "uint64"),
                     !.dtype = "uint64", !.computed = @ + 1]
  ELSE array

make_neuroglancer_compatible(array) ==
  LET a1 == IF dtypeOf(array) = "bool" THEN lazy_op(array, "float32") ELSE array
  IN  IF dtypeOf(a1) = "int64" THEN lazy_op(a1, "uint64") ELSE a1

\* [i for i, t in enumerate(array.types) if t not in ["time", "space"]][0]
firstChannelAxis(array) ==
  CHOOSE i \in 1..Len(array.types) :
    /\ ~Physical(array.types[i])
    /\ \A j \in 1..(i - 1) : Physical(array.types[j])

\* A plausible slip: three channels fall out of the colour-image branch.
classifyDropThree(dtype, num_channels, shader) ==
  IF dtype \in BoolDtypes /\ (num_channels = NoInt \/ num_channels[1] = 1)
  THEN [volume_type |-> "image", shader |-> None]
  ELSE IF dtype \in BoolDtypes /\ num_channels[1] > 1
  THEN [volume_type |-> "image", shader |-> color]
  ELSE IF dtype \in ImageDtypes /\ (num_channels = NoInt \/ num_channels[1] = 1)
  THEN [volume_type |-> "image", shader |-> None]
  ELSE IF dtype \in ImageDtypes /\ (1 < num_channels[1] /\ num_channels[1] < 3)
  THEN [volume_type |-> "image", shader |-> color]
  ELSE IF dtype \in ImageDtypes /\ num_channels[1] > 3
  THEN [volume_type |-> "image", shader |-> color]
  ELSE [volume_type |-> "segmentation", shader |-> None]

\* The if/elif chain on dtype and num_channels; the caller's shader is
\* overwritten in every branch.
classify(dtype, num_channels, shader) ==
  IF dtype \in BoolDtypes /\ (num_channels = NoInt \/ num_channels[1] = 1)
  THEN [volume_type |-> "image", shader |-> None]
  ELSE IF dtype \in BoolDtypes /\ num_channels[1] > 1
  THEN [volume_type |-> "image", shader |-> color]
  ELSE IF dtype \in ImageDtypes /\ (num_channels = NoInt \/ num_channels[1] = 1)
  THEN [volume_type |-> "image", shader |-> None]
  ELSE IF dtype \in ImageDtypes /\ (1 < num_channels[1] /\ num_channels[1] <= 3)
  THEN [volume_type |-> "image", shader |-> color]
  ELSE IF dtype \in ImageDtypes /\ num_channels[1] > 3
  THEN [volume_type |-> "image", shader |-> color]
  ELSE [volume_type |-> "segmentation", shader |-> None]

\* A plausible slip: the hint is honoured only when the array has no single
\* channel axis of its own.
resolveChannelDimPreferOwn(array, channel_dim) ==
  IF channel_dims(array) = 1
  THEN [status |-> "ok", channel_dim |-> <<firstChannelAxis(array)>>]
  ELSE IF channel_dim # NoInt
  THEN [status |-> "ok", channel_dim |-> channel_dim]
  ELSE IF channel_dims(array) > 1
  THEN [status |-> "AssertionError: channel_dims", channel_dim |-> NoInt]
  ELSE [status |-> "ok", channel_dim |-> NoInt]

\* Lines 214-222: the channel axis, or the failed assertion.
resolveChannelDim(array, channel_dim) ==
  IF channel_dim # NoInt
  THEN [status |-> "ok", channel_dim |-> channel_dim]
  ELSE IF ~(channel_dims(array) <= 1)
  THEN [status |-> "AssertionError: channel_dims", channel_dim |-> NoInt]
  ELSE IF channel_dims(array) = 1
  THEN [status |-> "ok", channel_dim |-> <<firstChannelAxis(array)>>]
  ELSE [status |-> "ok", channel_dim |-> NoInt]

\* The layer stored in context.layers[name].
arrayLayer(array, volume_type, shader, space) ==
  [layer |-> IF volume_type = "segmentation" THEN "SegmentationLayer" ELSE "ImageLayer",
   volume_type |-> volume_type,
   shader |-> shader,
   names |-> space.names, units |-> space.units, scales |-> space.scales,
   matrix |-> space.affine_transform,
   data_dtype |-> dtypeOf(array)]

put(context, name, layer) ==
  [n \in DOMAIN context \cup {name} |-> IF n = name THEN layer ELSE context[n]]

\* A plausible slip: the layer is stored before the coordinate space is built.
storeOnFailure(context, name, ok, layer) ==
  put(context, name, IF ok THEN layer ELSE [layer |-> "ImageLayer"])

\* context.layers[name] = ..., reached only when nothing raised before it.
store(context, name, ok, layer) ==
  IF ok THEN put(context, name, layer) ELSE context

LayerNames == {"raw", "labels"}
ShaderArgs == {None, "heatmap"}

\* add_layer(context, array, name, shader, channel_dim) on the array in hand.
AddLayer(name, shader, channel_dim) ==
  LET dtype == dtypeOf(arr)
      res   == resolveChannelDim(arr, channel_dim)
  IN
  /\ IF res.status # "ok"
     THEN /\ last' = [op |-> "add_layer", name |-> name, shader_arg |-> shader,
                      hint |-> channel_dim, status |-> res.status,
                      dtype |-> dtype, channel_dim |-> NoInt, num_channels |-> NoInt,
                      volume_type |-> None, shader |-> None]
          /\ UNCHANGED <<arr, layers>>
     ELSE LET num_channels == IF res.channel_dim # NoInt
                              THEN <<arr.shape[res.channel_dim[1]]>> ELSE NoInt
              cls    == classify(dtype, num_channels, shader)
              array2 == make_neuroglancer_compatible(arr)
              space  == create_coordinate_space(array2)
          IN  /\ arr' = array2
              /\ layers' = store(layers, name, space.status = "ok",
                                 arrayLayer(array2, cls.volume_type, cls.shader, space))
              /\ last' = [op |-> "add_layer", name |-> name, shader_arg |-> shader,
                          hint |-> channel_dim, status |-> space.status,
                          dtype |-> dtype, channel_dim |-> res.channel_dim,
                          num_channels |-> num_channels,
                          volume_type |-> cls.volume_type, shader |-> cls.shader]
  /\ UNCHANGED <<ret, graph, cli>>

\* The arrays handed to add_layer, in two families: every axis-type assignment
\* with one dtype of each class, and every dtype and channel count on the axis
\* layouts of basics.py:24-93.  Axis lengths cycle through 1..MaxChannels from
\* a chosen start, so that every axis can carry every channel count.
typedAxis(t) ==
  [type |-> t, marked |-> FALSE,
   cal |-> IF t = "space" THEN [unit |-> "nm", voxel_size |-> 4, offset |-> 2]
           ELSE IF t = "time" THEN [unit |-> "s", voxel_size |-> 1, offset |-> 0]
           ELSE NoCalibration]

TypeLists == UNION { [1..D -> AxisTypes] : D \in 1..MaxAxes }

TutorialLayouts ==
  { <<"space", "space">>,
    <<"space", "space", "channel">>,
    <<"channel", "space", "space">> }

cycleShape(D, start) == [i \in 1..D |-> ((start + i - 2) % MaxChannels) + 1]

FloatDtypes == {"float16", "float32", "float64"}

sampleOf(dtype) ==
  IF dtype = "bool" THEN <<FALSE, TRUE>>
  ELSE IF dtype \in FloatDtypes THEN << <<0, 1>>, <<1, 2>> >>
  ELSE <<0, 1>>

typedArray(ts, dt, start) ==
  ArrayOf([i \in 1..Len(ts) |-> typedAxis(ts[i])], dt,
          cycleShape(Len(ts), start), sampleOf(dt))

LayerArrays ==
  { typedArray(ts, dt, 2) : ts \in TypeLists, dt \in {"bool", "uint8", "int64"} }
  \cup
  { typedArray(ts, dt, start) :
      ts \in TutorialLayouts, dt \in Dtypes, start \in 1..MaxChannels }

Init ==
  /\ arr \in LayerArrays
  /\ ret = [status |-> "none"]
  /\ layers = NoLayers
  /\ last = NoCall
  /\ graph = NoGraph
  /\ cli = NoCli

Next ==
  \E name \in LayerNames, shader \in ShaderArgs,
     channel_dim \in {NoInt} \cup { <<i>> : i \in 1..Len(arr.types) } :
       AddLayer(name, shader, channel_dim)

Spec == Init /\ [][Next]_vars

\* ------------------------------------- specification: dtype normalisation
\* The samples an array of a dtype may hold (two per array).
ValuesOf(dtype) ==
  IF dtype = "bool" THEN BOOLEAN
  ELSE IF dtype \in FloatDtypes THEN { <<0, 1>>, <<1, 2>> }
  ELSE IF dtype = "int64" THEN (-(2 ^ (IdBits - 1))) .. (2 ^ (IdBits - 1) - 1)
  ELSE {0, 1}

CompatArrays ==
  UNION { { ArrayOf(<<typedAxis("space")>>, dt, <<2>>, <<v, w>>) :
              v \in ValuesOf(dt), w \in ValuesOf(dt) } : dt \in Dtypes }

\* Reading the data runs the attached conversions, in order, on the source.
RECURSIVE compute(_, _, _)
compute(data, dtype, ops) ==
  IF ops = <<>> THEN data
  ELSE compute(astype(data, dtype, Head(ops)), Head(ops), Tail(ops))

InitCompat ==
  /\ arr \in CompatArrays
  /\ ret = [status |-> "none"]
  /\ layers = NoLayers
  /\ last = NoCall
  /\ graph = NoGraph
  /\ cli = NoCli

CallMakeNeuroglancerCompatible ==
  /\ arr' = make_neuroglancer_compatible(arr)
  /\ last' = [op |-> "make_neuroglancer_compatible", dtype |-> dtypeOf(arr),
              lazy_ops |-> arr.lazy_ops, source |-> arr.source]
  /\ UNCHANGED <<ret, layers, graph, cli>>

\* The viewer reads array.data.
ReadData ==
  /\ arr.computed + Len(arr.lazy_ops) <= MaxComputed
  /\ ret' = [status |-> "read", dtype |-> dtypeOf(arr),
             values |-> compute(arr.source, arr.dtype, arr.lazy_ops),
             after_call |-> last.op = "make_neuroglancer_compatible"]
  /\ arr' = [arr EXCEPT !.computed = @ + Len(arr.lazy_ops)]
  /\ UNCHANGED <<layers, last, graph, cli>>

NextCompat == CallMakeNeuroglancerCompatible \/ ReadData

SpecCompat == InitCompat /\ [][NextCompat]_vars

\* -------------------------------------------------------------- add_graph
\* A graph: nodes[k] is the position of node k, edges the node pairs in the
\* order nx_graph.edges() yields them, meta the graph-level dict
\* nx_graph.graph (a key may be absent, or present with the value None).
Digits == <<"0", "1", "2", "3", "4", "5", "6", "7", "8", "9">>

\* f"d{i}" for the Python index i = axis - 1.
defaultAxisName(axis) == <<"d", Digits[axis]>>

\* skeleton_id_to_color: a colour fixed by the seed hash(skeleton_id).
skeleton_id_to_color(skeleton_id) == <<"color of", skeleton_id>>

\* The loop over nx_graph.edges(): one LineAnnotation per edge, ids from
\* itertools.count().
lineAnnotations(g) ==
  [e \in 1..Len(g.edges) |->
     [point_a |-> g.nodes[g.edges[e][1]],
      point_b |-> g.nodes[g.edges[e][2]],
      id |-> e - 1]]

\* nx_graph.graph.get(key)
metaGet(g, key) == IF key \in DOMAIN g.meta THEN g.meta[key] ELSE NoList

\* add_graph up to the store: the exception raised, or the layer built.
add_graph(g) ==
  IF Len(g.nodes) = 0 THEN [status |-> "StopIteration"]
  ELSE IF "axis_names" \notin DOMAIN g.meta THEN [status |-> "KeyError: axis_names"]
  ELSE
    LET ndims == Len(g.nodes[1])
        axis_names == g.meta["axis_names"]
        scales == metaGet(g, "voxel_size")
        units == metaGet(g, "units")
    IN  [status |-> "ok",
         layer |->
           [layer |-> "LocalAnnotationLayer",
            names |-> IF axis_names = NoList
                      THEN [i \in 1..ndims |-> defaultAxisName(i)] ELSE axis_names,
            units |-> IF units = NoList THEN [i \in 1..ndims |-> ""] ELSE units,
            scales |-> IF scales = NoList THEN [i \in 1..ndims |-> 1] ELSE scales,
            annotation_color |-> skeleton_id_to_color(0),
            annotations |-> lineAnnotations(g)]]

AddGraph(name) ==
  LET res == add_graph(graph)
  IN  /\ layers' = IF res.status = "ok" THEN put(layers, name, res.layer) ELSE layers
      /\ last' = [op |-> "add_graph", name |-> name, status |-> res.status]
      /\ UNCHANGED <<arr, ret, graph, cli>>

\* The graphs handed to add_graph: up to MaxNodes nodes with distinct
\* positions of 1..MaxAxes dimensions, up to MaxEdges edges in any order, and
\* every way the three metadata keys can be absent or given (axis_names also
\* given as None).
positionOf(k, ndims) == [i \in 1..ndims |-> 10 * k + i]

NodePairs(n) == { <<u, v>> : u \in 1..n, v \in 1..n } \ { <<u, u>> : u \in 1..n }

EdgeLists(n) ==
  { es \in UNION { [1..m -> NodePairs(n)] : m \in 0..MaxEdges } :
      \A i \in 1..Len(es) : \A j \in 1..Len(es) :
        i # j => {es[i][1], es[i][2]} # {es[j][1], es[j][2]} }

MetaOf(ndims, names, scales, units) ==
  LET given == [axis_names |-> IF names = "given"
                               THEN [i \in 1..ndims |-> <<Letters[i]>>] ELSE NoList,
                voxel_size |-> [i \in 1..ndims |-> 4],
                units |-> [i \in 1..ndims |-> "nm"]]
      keys == (IF names = "absent" THEN {} ELSE {"axis_names"})
              \cup (IF scales = "absent" THEN {} ELSE {"voxel_size"})
              \cup (IF units = "absent" THEN {} ELSE {"units"})
  IN  [k \in keys |-> given[k]]

GraphsOn(n) ==
  { [nodes |-> [k \in 1..n |-> positionOf(k, ndims)],
     edges |-> es,
     meta |-> MetaOf(ndims, names, scales, units)] :
      es \in EdgeLists(n), ndims \in 1..MaxAxes,
      names \in {"absent", "none", "given"},
      scales \in {"absent", "given"}, units \in {"absent", "given"} }

InitGraph ==
  /\ \E n \in 0..MaxNodes : graph \in GraphsOn(n)
  /\ cli = NoCli
  /\ arr = NoArray
  /\ ret = [status |-> "none"]
  /\ layers = NoLayers
  /\ last = NoCall

NextGraph == \E name \in LayerNames : AddGraph(name)

SpecGraph == InitGraph /\ [][NextGraph]_vars

\* ------------------------------------------------ claims: coordinate space
\* The number of space/time axes among the first i axes: the place of axis i in
\* the units/voxel_size/offset sequences.
rank(types, i) == Cardinality({j \in 1..i : Physical(types[j])})

hasSpaceAxis(array) == \E i \in 1..Len(array.types) : array.types[i] = "space"

RECURSIVE trailingCarets(_)
trailingCarets(name) ==
  IF Len(name) > 0 /\ name[Len(name)] = "^"
  THEN 1 + trailingCarets(SubSeq(name, 1, Len(name) - 1))
  ELSE 0

stem(name) == SubSeq(name, 1, Len(name) - trailingCarets(name))

\* C1: for an array with D axes and at least one space axis,
\* create_coordinate_space returns a coordinate space, and the space it
\* returns has D names, D units and D scales, entry i describing input axis
\* i: its name (marked or not), and for a space/time axis the unit and voxel
\* size of that axis; nothing is reordered, dropped or duplicated.
C1_OrderPreserved ==
  /\ (ret.status # "none" /\ hasSpaceAxis(arr)) => ret.status = "ok"
  /\ ret.status = "ok" =>
    /\ Len(ret.names) = Len(arr.types)
    /\ Len(ret.units) = Len(arr.types)
    /\ Len(ret.scales) = Len(arr.types)
    /\ \A i \in 1..Len(arr.types) :
         /\ stem(ret.names[i]) = stem(arr.axis_names[i])
         /\ Physical(arr.types[i]) =>
              /\ ret.units[i] = arr.units[rank(arr.types, i)]
              /\ ret.scales[i] = arr.voxel_size[rank(arr.types, i)]

C1_Witness ==
  /\ ret.status = "ok"
  /\ arr.types = <<"channel", "time", "space">>
  /\ arr.units = <<"s", "nm">>
  /\ arr.voxel_size = <<1, 4>>
  /\ ret.units = <<"", "s", "nm">>
  /\ ret.scales = <<1, 1, 4>>

\* C2: the affine transform has D rows and D + 1 columns, the identity in the
\* first D columns, and in the last column of the row of the k-th space/time
\* axis the value offset[k] / voxel_size[k]: offset 2 with voxel size 1 gives
\* 2, offset 2 with voxel size 4 gives 1/2.
C2_AffineOffset ==
  ret.status = "ok" =>
    LET D == Len(arr.types)
        A == ret.affine_transform
    IN  /\ Len(A) = D
        /\ \A i \in 1..D :
             /\ Len(A[i]) = D + 1
             /\ \A j \in 1..D : A[i][j] = IF i = j THEN <<1, 1>> ELSE <<0, 1>>
             /\ Physical(arr.types[i]) =>
                  LET k == rank(arr.types, i)
                      t == A[i][D + 1]
                  IN  /\ t[2] > 0
                      /\ t[1] * arr.voxel_size[k] = arr.offset[k] * t[2]
                      /\ (arr.offset[k] = 2 /\ arr.voxel_size[k] = 1) => t = <<2, 1>>
                      /\ (arr.offset[k] = 2 /\ arr.voxel_size[k] = 4) => t = <<1, 2>>

C2_Witness ==
  /\ ret.status = "ok"
  /\ arr.types = <<"space", "channel", "space">>
  /\ arr.offset = <<2, 2>>
  /\ arr.voxel_size = <<1, 4>>
  /\ ret.affine_transform[1][4] = <<2, 1>>
  /\ ret.affine_transform[3][4] = <<1, 2>>

\* C3: an axis typed neither space nor time gets unit "", scale 1 and
\* translation 0, and the fillers take no place of a space/time axis: read at
\* the space/time axes alone, the outputs are the source sequences.
physicalPart(seq, types) ==
  [k \in 1..spatial_dims([types |-> types]) |->
     seq[CHOOSE i \in 1..Len(types) : Physical(types[i]) /\ rank(types, i) = k]]

C3_Filler ==
  ret.status = "ok" =>
    LET D == Len(arr.types)
    IN  /\ \A i \in 1..D :
             ~Physical(arr.types[i]) =>
               /\ ret.units[i] = ""
               /\ ret.scales[i] = 1
               /\ ret.affine_transform[i][D + 1] = <<0, 1>>
        /\ physicalPart(ret.units, arr.types) = arr.units
        /\ physicalPart(ret.scales, arr.types) = arr.voxel_size

C3_Witness ==
  /\ ret.status = "ok"
  /\ arr.types = <<"channel", "space", "channel">>
  /\ arr.units = <<"um">>
  /\ ret.units = <<"", "um", "">>
  /\ ret.scales = <<1, 4, 1>>
  /\ ret.affine_transform[2][4] = <<-3, 2>>

\* C4: the marking is idempotent: a space/time name is returned unchanged, any
\* other name keeps its stem and ends with one "^" if it had none and with its
\* own markers if it had some, and marking the returned names again changes
\* nothing.
C4_MarkingIdempotent ==
  ret.status = "ok" =>
    /\ \A i \in 1..Len(arr.types) :
         IF Physical(arr.types[i])
         THEN ret.names[i] = arr.axis_names[i]
         ELSE /\ stem(ret.names[i]) = stem(arr.axis_names[i])
              /\ trailingCarets(ret.names[i]) =
                   IF trailingCarets(arr.axis_names[i]) = 0
                   THEN 1 ELSE trailingCarets(arr.axis_names[i])
    /\ markedNames(ret.names, arr.types) = ret.names

C4_Witness ==
  /\ ret.status = "ok"
  /\ arr.types = <<"channel", "space", "channel">>
  /\ arr.axis_names = << <<"z", "^">>, <<"y", "^">>, <<"x">> >>
  /\ ret.names = << <<"z", "^">>, <<"y", "^">>, <<"x", "^">> >>

\* ---------------------------------------------------------- claims: add_layer
channelAxes(array) == {i \in 1..Len(array.types) : ~Physical(array.types[i])}

\* C5: the layer add_layer stores has the volume type and shader of the
\* decision table, whatever shader the caller passed: boolean or
\* uint8/uint16/float16/float32/float64 with no or one channel is an image with
\* no shader, with 2, 3 or more channels an image with the RGB shader, and any
\* other dtype is a segmentation with no shader.
tableCell(dtype, num_channels) ==
  CASE dtype = "bool" /\ num_channels \in {NoInt, <<1>>} ->
         [volume_type |-> "image", shader |-> None]
    [] dtype = "bool" ->
         [volume_type |-> "image", shader |-> color]
    [] dtype \in {"uint8", "uint16", "float16", "float32", "float64"}
         /\ num_channels \in {NoInt, <<1>>} ->
         [volume_type |-> "image", shader |-> None]
    [] dtype \in {"uint8", "uint16", "float16", "float32", "float64"} ->
         [volume_type |-> "image", shader |-> color]
    [] OTHER ->
         [volume_type |-> "segmentation", shader |-> None]

C5_Classification ==
  (last.op = "add_layer" /\ last.status = "ok") =>
    /\ last.name \in DOMAIN layers
    /\ layers[last.name].volume_type = tableCell(last.dtype, last.num_channels).volume_type
    /\ layers[last.name].shader = tableCell(last.dtype, last.num_channels).shader
    /\ layers[last.name].layer =
         IF layers[last.name].volume_type = "segmentation"
         THEN "SegmentationLayer" ELSE "ImageLayer"

C5_Witness ==
  /\ last.op = "add_layer" /\ last.status = "ok"
  /\ last.dtype = "uint8" /\ last.num_channels = <<3>>
  /\ last.shader_arg = "heatmap"
  /\ layers[last.name].volume_type = "image"
  /\ layers[last.name].shader = color
  /\ \E n \in DOMAIN layers : layers[n].volume_type = "image" /\ layers[n].shader = None

\* C6: a supplied channel_dim hint is used unchanged whatever the number of
\* axes typed neither space nor time; without a hint, no such axis gives no
\* channel axis, exactly one gives its index, and two or more fail the call
\* with the channel-dimension assertion.
C6_ChannelAxis ==
  last.op = "add_layer" =>
    IF last.hint # NoInt
    THEN /\ last.status # "AssertionError: channel_dims"
         /\ last.channel_dim = last.hint
    ELSE CASE Cardinality(channelAxes(arr)) = 0 ->
                /\ last.status # "AssertionError: channel_dims"
                /\ last.channel_dim = NoInt
           [] Cardinality(channelAxes(arr)) = 1 ->
                /\ last.status # "AssertionError: channel_dims"
                /\ last.channel_dim # NoInt
                /\ channelAxes(arr) = {last.channel_dim[1]}
           [] OTHER ->
                last.status = "AssertionError: channel_dims"

C6_Witness ==
  /\ last.op = "add_layer"
  /\ last.hint = NoInt
  /\ last.status = "AssertionError: channel_dims"
  /\ arr.types = <<"channel", "channel", "space">>
  /\ "raw" \in DOMAIN layers
  /\ layers["raw"].names = << <<"z", "^">>, <<"y", "^">>, <<"x">> >>

C7_LazyNormalisation ==
  /\ last.op = "make_neuroglancer_compatible" =>
       /\ arr.lazy_ops = last.lazy_ops \o
                            (IF last.dtype = "bool" THEN <<"float32">>
                             ELSE IF last.dtype = "int64" THEN <<"uint64">>
                             ELSE <<>>)
       /\ arr.source = last.source
  /\ ret.status = "none" => arr.computed = 0
  /\ (ret.status = "read" /\ ret.after_call) =>
       /\ arr.dtype = "bool" =>
            /\ ret.dtype = "float32"
            /\ \A i \in 1..Len(arr.source) :
                 ret.values[i] = IF arr.source[i] THEN <<1, 1>> ELSE <<0, 1>>
       /\ arr.dtype = "int64" =>
            /\ ret.dtype = "uint64"
            /\ \A i \in 1..Len(arr.source) :
                 /\ ret.values[i] \in 0 .. (2 ^ IdBits - 1)
                 /\ arr.source[i] >= 0 => ret.values[i] = arr.source[i]
       /\ arr.dtype \notin {"bool", "int64"} =>
            /\ ret.dtype = arr.dtype
            /\ ret.values = arr.source

C7_Witness ==
  /\ last.op = "make_neuroglancer_compatible"
  /\ arr.dtype = "bool"
  /\ arr.source = <<FALSE, TRUE>>
  /\ arr.lazy_ops = <<"float32">>
  /\ ret.status = "read" /\ ret.after_call
  /\ ret.values = << <<0, 1>>, <<1, 1>> >>
  /\ arr.computed = 1

\* ----------------------------------------------------------- claims: add_graph
\* C9 as stated: add_graph accepts a graph (with at least one node) whose
\* metadata lacks any of axis_names, voxel_size, units, and uses d0, d1, ...,
\* scale 1 and unit "" for each absent one and the given value otherwise.
C9_MetadataDefaults ==
  (last.op = "add_graph" /\ Len(graph.nodes) > 0) =>
    LET ndims == Len(graph.nodes[1])
        has(key) == key \in DOMAIN graph.meta /\ graph.meta[key] # NoList
    IN  /\ last.status = "ok"
        /\ last.name \in DOMAIN layers
        /\ layers[last.name].names =
             IF has("axis_names") THEN graph.meta["axis_names"]
             ELSE [i \in 1..ndims |-> <<"d", Digits[i]>>]
        /\ layers[last.name].scales =
             IF has("voxel_size") THEN graph.meta["voxel_size"]
             ELSE [i \in 1..ndims |-> 1]
        /\ layers[last.name].units =
             IF has("units") THEN graph.meta["units"]
             ELSE [i \in 1..ndims |-> ""]

\* C10 as stated: after add_graph on a graph (with at least one node) the
\* layer under the given name holds one line annotation per edge, edge (u, v)
\* giving point_a = position of u and point_b = position of v, with the ids
\* 0 .. E-1 in edge order.
C10_OneAnnotationPerEdge ==
  (last.op = "add_graph" /\ Len(graph.nodes) > 0) =>
    /\ last.name \in DOMAIN layers
    /\ LET A == layers[last.name].annotations
       IN  /\ Len(A) = Len(graph.edges)
           /\ \A e \in 1..Len(graph.edges) :
                /\ A[e].point_a = graph.nodes[graph.edges[e][1]]
                /\ A[e].point_b = graph.nodes[graph.edges[e][2]]
                /\ A[e].id = e - 1
           /\ \A e \in 1..Len(A) : \A f \in 1..Len(A) : e # f => A[e].id # A[f].id

\* What add_graph does on the graphs it does not raise on: the same two
\* statements, for a graph that carries the key axis_names.
C9C10_WhenAxisNamesKeyPresent ==
  "axis_names" \in DOMAIN graph.meta => (C9_MetadataDefaults /\ C10_OneAnnotationPerEdge)

\* ------------------------------------------------ create_shader_code
MaxScale == 2

\* The shader sources that module add_array binds at import: color,
\* color_shader_code, binary_shader_code and heatmap_shader_code. The function
\* also reads rgb_shader_code, which no statement of the module binds.
ShaderGlobals ==
  {"color", "color_shader_code", "binary_shader_code", "heatmap_shader_code"}

\* template % args: the source text with its placeholders filled in.
format(template, args) == [template |-> template, args |-> args]

NoShader == [template |-> None, args |-> <<>>]

returned(value) == [status |-> "ok", value |-> value]

\* Reading a module-level name: its value when bound, NameError otherwise.
global(name, args) ==
  IF name \in ShaderGlobals THEN returned(format(name, args))
  ELSE [status |-> "NameError: " \o name]

\* create_shader_code(shader, channel_dims, rgb_channels, color, scale_factor);
\* nChannelDims is the parameter channel_dims, colorArg the parameter color
\* (NoList for None). A name matched by none of
\* the four if statements falls off the end of the function.
create_shader_code(shader, nChannelDims, rgb_channels, colorArg, scale_factor) ==
  IF shader = None /\ ~(nChannelDims > 1) THEN returned(NoShader)
  ELSE
    LET sh == IF shader = None THEN "rgb" ELSE shader
        ch == IF rgb_channels = NoList THEN <<0, 1, 2>> ELSE rgb_channels
    IN  CASE sh = "rgb" ->
               global("rgb_shader_code", <<scale_factor, ch[1], ch[2], ch[3]>>)
          [] sh = "color" ->
               IF colorArg = NoList
               THEN [status |-> "AssertionError: color"]
               ELSE global("color_shader_code",
                           <<colorArg[1], colorArg[2], colorArg[3]>>)
          [] sh = "binary" -> global("binary_shader_code", <<>>)
          [] sh = "heatmap" -> global("heatmap_shader_code", <<>>)
          [] OTHER -> returned(NoShader)

ShaderNames ==
  {None, "rgb", "color", "binary", "heatmap", "projected_rgb", "grayscale"}

RgbChannels == {NoList, <<0, 1, 2>>, <<2, 1, 0>>}

Colors == {NoList, <<1, 0, 0>>, <<0, 1, 1>>}

InitShader ==
  /\ arr = NoArray
  /\ ret = [status |-> "none"]
  /\ layers = NoLayers
  /\ last = NoCall
  /\ graph = NoGraph
  /\ cli = NoCli

CallCreateShaderCode ==
  \E shader \in ShaderNames, nChannelDims \in 0..MaxChannels,
     rgb_channels \in RgbChannels, colorArg \in Colors,
     scale_factor \in 1..MaxScale :
    /\ ret' = create_shader_code(shader, nChannelDims, rgb_channels, colorArg,
                                 scale_factor)
    /\ last' = [op |-> "create_shader_code", shader |-> shader,
                channel_dims |-> nChannelDims, rgb_channels |-> rgb_channels,
                color |-> colorArg, scale_factor |-> scale_factor]
    /\ UNCHANGED <<arr, layers, graph, cli>>

NextShader == CallCreateShaderCode

SpecShader == InitShader /\ [][NextShader]_vars

\* ------------------------------------------------ claims: shader code
\* The closed set of shader names.
ClosedSet == {"rgb", "color", "binary", "heatmap"}

\* The source of a variant of the closed set, with the call's parameters.
variantSource(call) ==
  LET ch == IF call.rgb_channels = NoList THEN <<0, 1, 2>> ELSE call.rgb_channels
  IN  CASE call.shader = "rgb" ->
             format("rgb_shader_code", <<call.scale_factor, ch[1], ch[2], ch[3]>>)
        [] call.shader = "color" -> format("color_shader_code", call.color)
        [] call.shader = "binary" -> format("binary_shader_code", <<>>)
        [] call.shader = "heatmap" -> format("heatmap_shader_code", <<>>)

\* C11 as stated: create_shader_code fails with an error, returning neither a
\* source nor None, whenever the requested name is outside the closed set
\* {rgb, color, binary, heatmap} or the color shader is requested without its
\* color; for a name of the set with its parameters present it returns that
\* variant's source.
C11_AsStated ==
  (last.op = "create_shader_code" /\ last.shader # None) =>
    IF last.shader \notin ClosedSet \/ (last.shader = "color" /\ last.color = NoList)
    THEN ret.status # "ok"
    ELSE ret = returned(variantSource(last))

\* What create_shader_code does: the color shader without a color fails on
\* the assertion; color with a color, binary and heatmap return their sources;
\* a name outside the set returns None; rgb, asked for by name or chosen for
\* more than one channel dimension, fails on the unbound rgb_shader_code.
C11_AsCoded ==
  last.op = "create_shader_code" =>
    LET sh == IF last.shader = None /\ last.channel_dims > 1 THEN "rgb"
              ELSE last.shader
    IN  CASE sh = None -> ret = returned(NoShader)
          [] sh = "rgb" -> ret.status = "NameError: rgb_shader_code"
          [] sh = "color" /\ last.color = NoList ->
               ret.status = "AssertionError: color"
          [] sh \in ClosedSet -> ret = returned(variantSource(last))
          [] OTHER -> ret = returned(NoShader)

\* ------------------------------------------------ cli: main
MaxPaths == 3

\* str(count), in decimal.
RECURSIVE str(_)
str(n) == IF n < 10 THEN <<Digits[n + 1]>>
          ELSE str(n \div 10) \o <<Digits[(n % 10) + 1]>>

\* A path is the sequence of its components, a component the sequence of its
\* pieces between underscores: a/raw_1 is << <<"a">>, <<"raw", "_", "1">> >>
\* and the empty string is << >>.
\* Path(ds_path).name: the last component, "" for the empty path.
pathName(ds_path) == IF ds_path = <<>> THEN <<>> ELSE ds_path[Len(ds_path)]

\* f"{layer_name}_{count}"
suffixed(layer_name, count) == layer_name \o <<"_">> \o str(count)

\* A plausible slip: the name is looked up once, `if` in place of `while`.
inUseChecksOnce(unique_name, count, arrays_to_show) ==
  unique_name \in DOMAIN arrays_to_show /\ count = 1

\* The condition of the renaming loop: unique_name in arrays_to_show.
inUse(unique_name, count, arrays_to_show) ==
  unique_name \in DOMAIN arrays_to_show

DsPaths ==
  { <<>>,
    << <<"a">>, <<"raw">> >>,
    << <<"b">>, <<"raw">> >>,
    << <<"a">>, <<"raw", "_", "1">> >> }

\* What opening a path gives: open_ds succeeds ("array"); open_ds raises and
\* the scales s0, s1, ... found under the path all open ("pyramid"); open_ds
\* raises and no scale is found or one of them fails to open ("failed").
Opens == {"array", "pyramid", "failed"}

\* The dataset paths the two for loops visit, in order, each with what
\* opening it gives.
DatasetsOf(n) == [1..n -> [ds_path : DsPaths, opens : Opens]]

NoObject == [ds |-> 0, kind |-> None]
NoArrays == [n \in {} |-> NoObject]

InitCli ==
  /\ \E n \in 0..MaxPaths : \E ds \in DatasetsOf(n) :
       cli = [pc |-> "for", datasets |-> ds, i |-> 1,
              layer_name |-> <<>>, unique_name |-> <<>>, count |-> 0,
              final_obj |-> NoObject, arrays_to_show |-> NoArrays]
  /\ arr = NoArray
  /\ ret = [status |-> "none"]
  /\ layers = NoLayers
  /\ last = NoCall
  /\ graph = NoGraph

\* One pass of the loop body up to the renaming loop: an empty path and a
\* path that does not open are skipped.
OpenDataset ==
  /\ cli.pc = "for"
  /\ cli.i <= Len(cli.datasets)
  /\ LET d == cli.datasets[cli.i]
     IN  IF d.ds_path = <<>> \/ d.opens = "failed"
         THEN cli' = [cli EXCEPT !.i = @ + 1]
         ELSE cli' = [cli EXCEPT !.pc = "while",
                                 !.layer_name = pathName(d.ds_path),
                                 !.unique_name = pathName(d.ds_path),
                                 !.count = 1,
                                 !.final_obj = [ds |-> cli.i, kind |-> d.opens]]
  /\ UNCHANGED <<arr, ret, layers, last, graph>>

\* One pass of the renaming loop.
Rename ==
  /\ cli.pc = "while"
  /\ inUse(cli.unique_name, cli.count, cli.arrays_to_show)
  /\ cli' = [cli EXCEPT !.unique_name = suffixed(cli.layer_name, cli.count),
                        !.count = @ + 1]
  /\ UNCHANGED <<arr, ret, layers, last, graph>>

\* arrays_to_show[unique_name] = final_obj, once the loop has ended.
Insert ==
  /\ cli.pc = "while"
  /\ ~inUse(cli.unique_name, cli.count, cli.arrays_to_show)
  /\ cli' = [cli EXCEPT !.arrays_to_show = put(@, cli.unique_name, cli.final_obj),
                        !.i = @ + 1,
                        !.pc = "for"]
  /\ UNCHANGED <<arr, ret, layers, last, graph>>

\* After the loops: exit with status 1 when nothing was loaded, else visualize.
Finish ==
  /\ cli.pc = "for"
  /\ cli.i > Len(cli.datasets)
  /\ cli' = [cli EXCEPT !.pc = IF DOMAIN cli.arrays_to_show = {}
                               THEN "exit" ELSE "visualize"]
  /\ UNCHANGED <<arr, ret, layers, last, graph>>

NextCli == OpenDataset \/ Rename \/ Insert \/ Finish

\* main runs on until it exits or hands over to visualize.
SpecCli == InitCli /\ [][NextCli]_vars /\ WF_vars(NextCli)

\* ------------------------------------------------ claims: cli
\* The datasets the loop is through with that were opened.
opened ==
  { k \in 1..Len(cli.datasets) :
      /\ k < cli.i
      /\ cli.datasets[k].ds_path # <<>>
      /\ cli.datasets[k].opens # "failed" }

shown == { cli.arrays_to_show[n].ds : n \in DOMAIN cli.arrays_to_show }

\* Every opened dataset has its own entry: as many entries as opened paths,
\* each holding a different opened dataset, under its own name or under that
\* name with a suffix.
C12_OwnEntry ==
  /\ Cardinality(DOMAIN cli.arrays_to_show) = Cardinality(opened)
  /\ shown = opened
  /\ \A n \in DOMAIN cli.arrays_to_show :
       LET e == cli.arrays_to_show[n]
           own == pathName(cli.datasets[e.ds].ds_path)
       IN  /\ e.kind = cli.datasets[e.ds].opens
           /\ n = own \/ \E c \in 1..Len(cli.datasets) : n = suffixed(own, c)
  /\ cli.pc = "while" => cli.count <= Cardinality(DOMAIN cli.arrays_to_show) + 1

\* No step removes an entry or replaces the dataset stored under a name.
C12_NeverOverwrites ==
  \A n \in DOMAIN cli.arrays_to_show :
    /\ n \in DOMAIN cli'.arrays_to_show
    /\ cli'.arrays_to_show[n] = cli.arrays_to_show[n]

C12_Finished == cli.pc \in {"exit", "visualize"}

\* C12: in the main loop of the CLI, after any sequence of dataset paths, every
\* successfully opened dataset has its own entry in arrays_to_show (as many
\* entries as opened paths), inserting a dataset never overwrites an earlier
\* entry, and the renaming loop (name, name_1, name_2, ...) terminates, also
\* when paths share their last component or a path's own name is a name
\* generated earlier, such as raw_1.
C12_EveryDatasetShown ==
  /\ [](cli.pc # "none" => C12_OwnEntry)
  /\ [][cli.pc # "none" => C12_NeverOverwrites]_vars
  /\ <>C12_Finished

\* a/raw, b/raw and a/raw_1 were all opened: the second is shown as raw_1 and
\* the third, finding its own name taken, as raw_1_1.
C12_Witness ==
  /\ cli.pc = "visualize"
  /\ DOMAIN cli.arrays_to_show =
       { <<"raw">>, <<"raw", "_", "1">>, <<"raw", "_", "1", "_", "1">> }
  /\ cli.arrays_to_show[<<"raw", "_", "1">>].ds = 2
  /\ pathName(cli.datasets[3].ds_path) = <<"raw", "_", "1">>

====
